---- MODULE Spec2Model ----
(***************************************************************************)
(* Master/worker task distribution of src/python/mpi_random_apply.py.      *)
(* Rank 0 runs main_thread (the Dispatcher), ranks 1..size-1 run           *)
(* worker_thread.  Messages travel over MPI point-to-point channels; a     *)
(* standard-mode send may return at once (buffered) or only when the       *)
(* matching receive has taken the message (synchronous), so every send     *)
(* chooses one of the two.                                                 *)
(***************************************************************************)
EXTENDS Integers, Sequences, FiniteSets, TLC

\* Bounds of the explored runs.
MaxTarget == 3
MaxBatch == 2
MaxWorkers == 3

\* The scenarios the design document names: <<nums_wanted, batch_size, size>>.
ScenarioA == <<25, 10, 3>>
ScenarioC == <<7, 10, 2>>

Configs ==
    {<<t, b, s>> : t \in 0..MaxTarget, b \in 1..MaxBatch, s \in 2..(MaxWorkers + 1)}
        \cup {ScenarioA, ScenarioC}

VARIABLES
    nums_wanted,    \* target total (module constant of the script)
    batch_size,     \* largest count of one job
    size,           \* number of MPI ranks, rank 0 included
    mpc,            \* where main_thread is
    workers_avail,  \* the list of free workers
    nums_out,       \* numbers requested so far
    nums_in,        \* numbers received so far
    pending,        \* <<dest, count>> of a send that has not returned yet, or <<>>
    recv_buf,       \* [src, n] of the batch received and not yet saved, or <<>>
    ci,             \* index of the clean-up loop into workers_avail
    outfile,        \* batches printed to the output file, in order
    disk,           \* how many printed values have left the file object's buffer
    wpc,            \* where each worker_thread is
    job,            \* count of the job each worker holds
    inbox,          \* per worker: jobs sent by rank 0 and not yet received
    data,           \* per worker: length of the array sent to rank 0 and not yet received, 0 if none
    arrived,        \* the ranks that have called comm.Barrier()
    trace           \* history of rank 0's sends and receives

vars == <<nums_wanted, batch_size, size, mpc, workers_avail, nums_out, nums_in,
          pending, recv_buf, ci, outfile, disk, wpc, job, inbox, data, arrived,
          trace>>

\* The run's parameters never change.
params == <<nums_wanted, batch_size, size>>

Workers == 1..(size - 1)

\* MPI.COMM_WORLD: rank 0 and the workers.
Ranks == 0..(size - 1)

\* Mutant of Min: max() written for min().
Min_AsMax(a, b) == IF a < b THEN b ELSE a

\* min(a, b)
Min(a, b) == IF a < b THEN a ELSE b

\* list(range(1, size))
Range1(n) == [i \in 1..(n - 1) |-> i]

\* Mutant of PopRest: the worker is read with workers_avail[-1] and stays on the list.
PopRest_Keep(l) == l

\* list.pop(): the last element, and the list without it
PopItem(l) == l[Len(l)]
PopRest(l) == SubSeq(l, 1, Len(l) - 1)

Init ==
    /\ \E c \in Configs :
        /\ nums_wanted = c[1]
        /\ batch_size = c[2]
        /\ size = c[3]
    /\ mpc = "loop"
    /\ workers_avail = Range1(size)
    /\ nums_out = 0
    /\ nums_in = 0
    /\ pending = <<>>
    /\ recv_buf = <<>>
    /\ ci = 1
    /\ outfile = <<>>
    /\ disk = 0
    /\ wpc = [w \in Workers |-> "recv"]
    /\ job = [w \in Workers |-> 0]
    /\ inbox = [w \in Workers |-> <<>>]
    /\ data = [w \in Workers |-> 0]
    /\ arrived = {}
    /\ trace = <<>>

\* Mutant of LoopTest: the loop condition written as nums_in <= nums_wanted.
LoopTest_OffByOne ==
    /\ mpc = "loop"
    /\ mpc' = IF nums_in <= nums_wanted THEN "fill" ELSE "cleanup"
    /\ ci' = 1
    /\ UNCHANGED <<params, arrived, workers_avail, nums_out, nums_in,
                   pending, recv_buf, outfile, disk, wpc, job, inbox, data, trace>>

\* Mutant of LoopTest: the loop runs while numbers remain to be requested.
LoopTest_OnRequested ==
    /\ mpc = "loop"
    /\ mpc' = IF nums_out < nums_wanted THEN "fill" ELSE "cleanup"
    /\ ci' = 1
    /\ UNCHANGED <<params, arrived, workers_avail, nums_out, nums_in,
                   pending, recv_buf, outfile, disk, wpc, job, inbox, data, trace>>

\* while nums_in < nums_wanted
LoopTest ==
    /\ mpc = "loop"
    /\ mpc' = IF nums_in < nums_wanted THEN "fill" ELSE "cleanup"
    /\ ci' = 1
    /\ UNCHANGED <<params, arrived, workers_avail, nums_out, nums_in,
                   pending, recv_buf, outfile, disk, wpc, job, inbox, data, trace>>

\* Mutant of JobCount: the cap at batch_size is left out.
JobCount_NoCap == nums_wanted - nums_out

\* Mutant of JobCount: every job asks for a full batch, as in random.py.
JobCount_FullBatch == batch_size

\* count = min(batch_size, (nums_wanted - nums_out))
JobCount == Min(batch_size, nums_wanted - nums_out)

\* One pass of "while workers_avail": comm.send of a job to workers_avail.pop(),
\* then nums_out += count.  A buffered send returns in the same step; a
\* synchronous one leaves rank 0 inside comm.send until the worker receives.
FillSend ==
    /\ mpc = "fill"
    /\ workers_avail # <<>>
    /\ LET w == PopItem(workers_avail)
           count == JobCount
       IN /\ workers_avail' = PopRest(workers_avail)
          /\ inbox' = [inbox EXCEPT ![w] = Append(@, count)]
          /\ trace' = Append(trace, [op |-> "fill", w |-> w, n |-> count])
          /\ \/ /\ nums_out' = nums_out + count
                /\ UNCHANGED <<mpc, pending>>
             \/ /\ pending' = <<w, count>>
                /\ mpc' = "fill_send"
                /\ UNCHANGED nums_out
    /\ UNCHANGED <<params, arrived, nums_in, recv_buf, ci, outfile, disk,
                   wpc, job, data>>

\* The synchronous comm.send of the fill loop returns; nums_out += count.
FillSendReturn ==
    /\ mpc = "fill_send"
    /\ inbox[pending[1]] = <<>>
    /\ nums_out' = nums_out + pending[2]
    /\ pending' = <<>>
    /\ mpc' = "fill"
    /\ UNCHANGED <<params, arrived, workers_avail, nums_in, recv_buf,
                   ci, outfile, disk, wpc, job, inbox, data, trace>>

\* "while workers_avail" finds the list empty: go on to the receive.
FillDone ==
    /\ mpc = "fill"
    /\ workers_avail = <<>>
    /\ mpc' = "recv"
    /\ UNCHANGED <<params, arrived, workers_avail, nums_out, nums_in,
                   pending, recv_buf, ci, outfile, disk, wpc, job, inbox, data, trace>>

\* Mutant of Trim: the length of the whole buffer is taken for recv_buf_size.
Trim_Whole(n) == batch_size

\* recv_buf[:recv_buf_size]: the buffer holds batch_size values at most
Trim(n) == Min(n, batch_size)

\* Mutant of Recv: the sender is not put back on the list.
Recv_NoAppend ==
    /\ mpc = "recv"
    /\ \E w \in Workers :
        /\ data[w] > 0
        /\ data' = [data EXCEPT ![w] = 0]
        /\ recv_buf' = [src |-> w, n |-> Trim(data[w])]
        /\ trace' = Append(trace, [op |-> "recv", w |-> w, n |-> Trim(data[w])])
    /\ mpc' = "save"
    /\ UNCHANGED <<params, arrived, workers_avail, nums_out, nums_in, pending, ci,
                   outfile, disk, wpc, job, inbox>>

\* comm.Recv from ANY_SOURCE; the sender goes back on the list.
Recv ==
    /\ mpc = "recv"
    /\ \E w \in Workers :
        /\ data[w] > 0
        /\ data' = [data EXCEPT ![w] = 0]
        /\ workers_avail' = Append(workers_avail, w)
        /\ recv_buf' = [src |-> w, n |-> Trim(data[w])]
        /\ trace' = Append(trace, [op |-> "recv", w |-> w, n |-> Trim(data[w])])
    /\ mpc' = "save"
    /\ UNCHANGED <<params, arrived, nums_out, nums_in, pending, ci,
                   outfile, disk, wpc, job, inbox>>

\* Number of values printed to the file so far.
RECURSIVE Written(_)
Written(f) == IF f = <<>> THEN 0 ELSE f[1].n + Written(Tail(f))

\* Mutant of Save: the buffer is printed whole, without the trim to recv_buf_size.
Save_Untrimmed ==
    /\ mpc = "save"
    /\ outfile' = Append(outfile, [src |-> recv_buf.src, n |-> batch_size])
    /\ disk' \in disk..Written(outfile')
    /\ nums_in' = nums_in + recv_buf.n
    /\ recv_buf' = <<>>
    /\ mpc' = "loop"
    /\ UNCHANGED <<params, arrived, workers_avail, nums_out, pending,
                   ci, wpc, job, inbox, data, trace>>

\* for i in recv_buf: print(i, file=outfile);  nums_in += recv_buf_size
\* The file was opened with open(name, 'w'): print() fills the file object's
\* buffer, and the buffer is written out whenever it is full, so any amount
\* of what has been printed may have reached the file by now.
Save ==
    /\ mpc = "save"
    /\ outfile' = Append(outfile, recv_buf)
    /\ disk' \in disk..Written(outfile')
    /\ nums_in' = nums_in + recv_buf.n
    /\ recv_buf' = <<>>
    /\ mpc' = "loop"
    /\ UNCHANGED <<params, arrived, workers_avail, nums_out, pending,
                   ci, wpc, job, inbox, data, trace>>

\* Mutant of CleanupList: the clean-up loop runs over every worker.
CleanupList_Everyone == Range1(size)

\* The list the clean-up loop runs over: "for w in workers_avail".
CleanupList == workers_avail

\* Mutant of CleanupSend: the loop body sends nothing.
CleanupSend_Nothing ==
    /\ mpc = "cleanup"
    /\ ci <= Len(CleanupList)
    /\ ci' = ci + 1
    /\ UNCHANGED <<params, arrived, mpc, workers_avail, nums_out, nums_in, pending, recv_buf,
                   outfile, disk, wpc, job, inbox, data, trace>>

\* for w in workers_avail: comm.send({'mean':0.0, 'count':0}, dest=w)
CleanupSend ==
    /\ mpc = "cleanup"
    /\ ci <= Len(CleanupList)
    /\ LET w == CleanupList[ci]
       IN /\ inbox' = [inbox EXCEPT ![w] = Append(@, 0)]
          /\ trace' = Append(trace, [op |-> "cleanup", w |-> w, n |-> 0])
          /\ \/ /\ ci' = ci + 1
                /\ UNCHANGED <<mpc, pending>>
             \/ /\ pending' = <<w, 0>>
                /\ mpc' = "cleanup_send"
                /\ UNCHANGED ci
    /\ UNCHANGED <<params, arrived, workers_avail, nums_out, nums_in,
                   recv_buf, outfile, disk, wpc, job, data>>

\* The synchronous comm.send of the clean-up loop returns.
CleanupSendReturn ==
    /\ mpc = "cleanup_send"
    /\ inbox[pending[1]] = <<>>
    /\ pending' = <<>>
    /\ ci' = ci + 1
    /\ mpc' = "cleanup"
    /\ UNCHANGED <<params, arrived, workers_avail, nums_out, nums_in,
                   recv_buf, outfile, disk, wpc, job, inbox, data, trace>>

\* The clean-up loop has visited the whole list: enter comm.Barrier().
CleanupDone ==
    /\ mpc = "cleanup"
    /\ ci > Len(CleanupList)
    /\ mpc' = "barrier"
    /\ arrived' = arrived \cup {0}
    /\ UNCHANGED <<params, workers_avail, nums_out, nums_in,
                   pending, recv_buf, ci, outfile, disk, wpc, job, inbox, data, trace>>

\* comm.Barrier() returns to a rank once every rank has called it.
BarrierFull == arrived = Ranks

\* Mutant of MainBarrier: rank 0 goes on without the comm.Barrier() call.
MainBarrier_NoWait ==
    /\ mpc = "barrier"
    /\ mpc' = "done"
    /\ disk' = Written(outfile)
    /\ UNCHANGED <<params, arrived, workers_avail, nums_out, nums_in,
                   pending, recv_buf, ci, outfile, wpc, job, inbox, data, trace>>

\* comm.Barrier() returns on rank 0; outfile.close() writes out the buffer.
MainBarrier ==
    /\ mpc = "barrier"
    /\ BarrierFull
    /\ mpc' = "done"
    /\ disk' = Written(outfile)
    /\ UNCHANGED <<params, arrived, workers_avail, nums_out, nums_in,
                   pending, recv_buf, ci, outfile, wpc, job, inbox, data, trace>>

\* Mutant of WorkerRecv: the test for a zero-length job is left out.
WorkerRecv_NoBreak(w) ==
    /\ wpc[w] = "recv"
    /\ inbox[w] # <<>>
    /\ job' = [job EXCEPT ![w] = Head(inbox[w])]
    /\ inbox' = [inbox EXCEPT ![w] = Tail(@)]
    /\ wpc' = [wpc EXCEPT ![w] = "generate"]
    /\ UNCHANGED <<params, arrived, mpc, workers_avail, nums_out,
                   nums_in, pending, recv_buf, ci, outfile, disk, data, trace>>

\* job = comm.recv(); "if not job['count']: break" leaves the loop: the
\* worker is in front of its comm.Barrier() call.
WorkerRecv(w) ==
    /\ wpc[w] = "recv"
    /\ inbox[w] # <<>>
    /\ job' = [job EXCEPT ![w] = Head(inbox[w])]
    /\ inbox' = [inbox EXCEPT ![w] = Tail(@)]
    /\ wpc' = [wpc EXCEPT ![w] = IF Head(inbox[w]) = 0 THEN "barrier" ELSE "generate"]
    /\ UNCHANGED <<params, arrived, mpc, workers_avail, nums_out,
                   nums_in, pending, recv_buf, ci, outfile, disk, data, trace>>

\* Mutant of Generate: the array is one value short.
Generate_Short(count) == count - 1

\* np.random.normal(loc=job['mean'], size=job['count']): an array of count values
Generate(count) == count

\* data_to_send = np.random.normal(...); comm.Send(data_to_send, dest=0).
\* A buffered Send returns at once, a synchronous one when rank 0 has received.
WorkerSend(w) ==
    /\ wpc[w] = "generate"
    /\ data' = [data EXCEPT ![w] = Generate(job[w])]
    /\ \/ wpc' = [wpc EXCEPT ![w] = "recv"]
       \/ wpc' = [wpc EXCEPT ![w] = "send"]
    /\ UNCHANGED <<params, arrived, mpc, workers_avail, nums_out,
                   nums_in, pending, recv_buf, ci, outfile, disk, job, inbox, trace>>

\* The synchronous comm.Send returns; back to comm.recv().
WorkerSendReturn(w) ==
    /\ wpc[w] = "send"
    /\ data[w] = 0
    /\ wpc' = [wpc EXCEPT ![w] = "recv"]
    /\ UNCHANGED <<params, arrived, mpc, workers_avail, nums_out,
                   nums_in, pending, recv_buf, ci, outfile, disk, job, inbox, data, trace>>

\* The worker, out of its loop, calls comm.Barrier().
WorkerArrive(w) ==
    /\ wpc[w] = "barrier"
    /\ w \notin arrived
    /\ arrived' = arrived \cup {w}
    /\ UNCHANGED <<params, mpc, workers_avail, nums_out, nums_in, pending, recv_buf,
                   ci, outfile, disk, wpc, job, inbox, data, trace>>

\* comm.Barrier() returns on a worker; worker_thread ends.
WorkerBarrier(w) ==
    /\ wpc[w] = "barrier"
    /\ w \in arrived
    /\ BarrierFull
    /\ wpc' = [wpc EXCEPT ![w] = "done"]
    /\ UNCHANGED <<params, arrived, mpc, workers_avail, nums_out,
                   nums_in, pending, recv_buf, ci, outfile, disk, job, inbox, data, trace>>

MainStep ==
    \/ LoopTest
    \/ FillSend
    \/ FillSendReturn
    \/ FillDone
    \/ Recv
    \/ Save
    \/ CleanupSend
    \/ CleanupSendReturn
    \/ CleanupDone
    \/ MainBarrier

WorkerStep(w) ==
    \/ WorkerRecv(w)
    \/ WorkerSend(w)
    \/ WorkerSendReturn(w)
    \/ WorkerArrive(w)
    \/ WorkerBarrier(w)

Next ==
    \/ MainStep
    \/ \E w \in Workers : WorkerRecv(w)
    \/ \E w \in Workers : WorkerSend(w)
    \/ \E w \in Workers : WorkerSendReturn(w)
    \/ \E w \in Workers : WorkerArrive(w)
    \/ \E w \in Workers : WorkerBarrier(w)

Spec == Init /\ [][Next]_vars

(***************************************************************************)
(* Failures.  "if rank==0: try: main_thread() except: atexit.register(     *)
(* MPI.COMM_WORLD.Abort, 1); raise" covers rank 0 only; the other ranks    *)
(* call worker_thread() bare.                                              *)
(***************************************************************************)

Running(pc) == pc \notin {"done", "failed", "aborted"}

\* An exception leaves main_thread at any point of it: the except clause
\* registers the Abort hook and re-raises.  Raised inside the print loop, or
\* after its last print and before "nums_in += recv_buf_size", it leaves
\* the first k values of the batch printed and nums_in as it was; the file
\* object has written its buffer out each time it filled, so any amount of
\* what has been printed may have reached the file.  Raised by
\* outfile.close() after comm.Barrier() has returned, it may leave a part of
\* the buffer written.  Raised by a comm.Barrier() that has not completed,
\* it leaves open whether rank 0 counts as having called the barrier.
MainFail ==
    /\ Running(mpc)
    /\ mpc' = "failed"
    /\ \/ UNCHANGED <<outfile, disk, arrived>>
       \/ /\ mpc = "save"
          /\ \E k \in 1..recv_buf.n :
                outfile' = Append(outfile, [src |-> recv_buf.src, n |-> k])
          /\ disk' \in disk..Written(outfile')
          /\ UNCHANGED arrived
       \/ /\ mpc = "barrier"
          /\ BarrierFull
          /\ disk' \in disk..Written(outfile)
          /\ UNCHANGED <<outfile, arrived>>
       \/ /\ mpc = "barrier"
          /\ ~BarrierFull
          /\ arrived' = arrived \ {0}
          /\ UNCHANGED <<outfile, disk>>
    /\ UNCHANGED <<params, workers_avail, nums_out, nums_in, pending, recv_buf, ci,
                   wpc, job, inbox, data, trace>>

\* The interpreter of rank 0 exits and runs the registered hook:
\* MPI.COMM_WORLD.Abort(1) ends every rank of the communicator, rank 0
\* included, there and then.  outfile is never flushed or closed on this
\* path: whether the process ends through the C library's exit() or through
\* _exit() and whether the file object buffers in the C library or in the
\* interpreter decide if the buffer still reaches the file, so it may or
\* may not.
Abort ==
    /\ mpc = "failed"
    /\ mpc' = "aborted"
    /\ wpc' = [w \in Workers |-> IF Running(wpc[w]) THEN "aborted" ELSE wpc[w]]
    /\ disk' \in {disk, Written(outfile)}
    /\ UNCHANGED <<params, arrived, workers_avail, nums_out, nums_in, pending, recv_buf, ci,
                   outfile, job, inbox, data, trace>>

\* An exception leaves worker_thread at any point of it (raised by
\* comm.recv, np.random.normal, comm.Send or comm.Barrier): nothing catches
\* it, the rank ends.  What the worker has sent stays sent and what it has
\* not received stays in its channel.  Raised after the break and before
\* comm.Barrier() is called, it leaves the worker out of the barrier for
\* good; raised by a comm.Barrier() that has not completed, it leaves open
\* whether the worker counts as having called the barrier.
WorkerFail(w) ==
    /\ Running(wpc[w])
    /\ wpc' = [wpc EXCEPT ![w] = "failed"]
    /\ \/ UNCHANGED arrived
       \/ /\ wpc[w] = "barrier"
          /\ w \in arrived
          /\ ~BarrierFull
          /\ arrived' = arrived \ {w}
    /\ UNCHANGED <<params, mpc, workers_avail, nums_out, nums_in, pending, recv_buf,
                   ci, outfile, disk, job, inbox, data, trace>>

NextFail ==
    \/ Next
    \/ MainFail
    \/ Abort
    \/ \E w \in Workers : WorkerFail(w)

SpecFail == Init /\ [][NextFail]_vars

(***************************************************************************)
(* Fair scheduling: every rank is a process of its own and keeps running   *)
(* while it has a step to take.                                            *)
(***************************************************************************)

AllRanks == UNION {1..(c[3] - 1) : c \in Configs}

FairSpec ==
    /\ Spec
    /\ WF_vars(MainStep)
    /\ \A w \in AllRanks : WF_vars(w \in Workers /\ WorkerStep(w))

(***************************************************************************)
(* Readings of the history of rank 0's sends and receives.                 *)
(***************************************************************************)

IsSend(e) == e.op \in {"fill", "cleanup"}
IsRecv(e) == e.op = "recv"

Sends(w) == {i \in DOMAIN trace : IsSend(trace[i]) /\ trace[i].w = w}
Recvs(w) == {i \in DOMAIN trace : IsRecv(trace[i]) /\ trace[i].w = w}
ZeroSends(w) == {i \in Sends(w) : trace[i].n = 0}
WorkIdx == {i \in DOMAIN trace : IsSend(trace[i]) /\ trace[i].n > 0}

\* Jobs and sentinels sent to w and not answered by a result.
Unanswered(w) == Cardinality(Sends(w)) - Cardinality(Recvs(w))

RECURSIVE SumLen(_)
SumLen(q) == IF q = <<>> THEN 0 ELSE q[1].n + SumLen(Tail(q))

\* Sum of the lengths of the batches rank 0 has received.
ReceivedTotal == SumLen(SelectSeq(trace, IsRecv))

RECURSIVE Counts(_)
Counts(q) == IF q = <<>> THEN <<>> ELSE <<q[1].n>> \o Counts(Tail(q))

\* The counts of the jobs dispatched as work, in order.
IsWork(e) == IsSend(e) /\ e.n > 0
WorkCounts == Counts(SelectSeq(trace, IsWork))

IsPrefix(a, b) == Len(a) <= Len(b) /\ a = SubSeq(b, 1, Len(a))

CeilDiv(a, b) == (a + b - 1) \div b

\* main_thread has left "while nums_in < nums_wanted".
LoopLeft == mpc \in {"cleanup", "cleanup_send", "barrier", "done"}

\* The worker has left "while True".
Terminated(w) == wpc[w] \in {"barrier", "done"}

AllDone == mpc = "done" /\ \A w \in Workers : wpc[w] = "done"

(***************************************************************************)
(* Claims.                                                                 *)
(***************************************************************************)

\* C1: once main_thread has left its dispatch loop, the lengths of all the
\* batches it received add up to exactly nums_wanted, and so does nums_in,
\* whether or not nums_wanted is a multiple of batch_size.
C1_DeliveredEqualsTarget ==
    LoopLeft => (ReceivedTotal = nums_wanted /\ nums_in = nums_wanted)

C1_Witness ==
    /\ mpc = "done"
    /\ nums_wanted = 3 /\ batch_size = 2 /\ size = 3
    /\ ReceivedTotal = 3

\* C2: under fair scheduling every run ends with rank 0 and every worker
\* having passed the barrier: nobody stays blocked in a send, a receive or
\* the barrier.
C2_Terminates == <>AllDone

C2_Witness ==
    /\ AllDone
    /\ nums_wanted = 3 /\ batch_size = 1 /\ size = 3
    /\ \E w \in Workers : Cardinality(Sends(w)) >= 3

\* C3: no worker ever has more than one unit outstanding: the units sent to
\* it exceed the results received from it by one at most, and at most one
\* unit or result of it is in the channels or in its hands.
C3_AtMostOneOutstanding ==
    \A w \in Workers :
        /\ Unanswered(w) \in {0, 1}
        /\ Len(inbox[w]) + (IF wpc[w] = "generate" THEN 1 ELSE 0)
                + (IF data[w] > 0 THEN 1 ELSE 0) <= 1

C3_Witness ==
    \E w \in Workers :
        /\ Cardinality(Sends(w)) >= 2
        /\ Unanswered(w) = 1
        /\ inbox[w] # <<>>

\* C4: rank 0 sends each worker one zero-count message at most, whether from
\* the fill loop or from the clean-up loop, and nothing after it; a worker
\* that has left its loop was sent exactly one and has no message waiting;
\* when rank 0 is in or past the barrier every worker was sent exactly one,
\* and when rank 0 is done every worker has left its loop.
C4_ExactlyOneTermination ==
    \A w \in Workers :
        /\ Cardinality(ZeroSends(w)) <= 1
        /\ \A i \in ZeroSends(w) : \A j \in Sends(w) : j <= i
        /\ Terminated(w) => (Cardinality(ZeroSends(w)) = 1 /\ inbox[w] = <<>>)
        /\ mpc \in {"barrier", "done"} => Cardinality(ZeroSends(w)) = 1
        /\ mpc = "done" => Terminated(w)

C4_Witness ==
    /\ AllDone
    /\ \E v, w \in Workers :
        /\ \E i \in ZeroSends(v) : trace[i].op = "fill"
        /\ \E i \in ZeroSends(w) : trace[i].op = "cleanup"

\* C5: rank 0 is past the barrier only when every worker has left its loop:
\* none is waiting for a job, generating or sending, and no message is left.
C5_BarrierAfterAllTerminated ==
    mpc = "done" =>
        \A w \in Workers : Terminated(w) /\ inbox[w] = <<>> /\ data[w] = 0

C5_Witness ==
    /\ mpc = "done"
    /\ size = 4
    /\ nums_wanted = 2
    /\ \E w \in Workers : wpc[w] = "barrier"

\* C6: with nums_wanted = 0 rank 0 never enters the fill loop and never
\* receives; all it sends is one zero-count message per worker from the
\* clean-up loop, and the run goes on until everybody has passed the barrier.
C6_ZeroTarget ==
    nums_wanted = 0 =>
        /\ mpc \notin {"fill", "fill_send", "recv", "save"}
        /\ \A i \in DOMAIN trace : trace[i].op = "cleanup" /\ trace[i].n = 0
        /\ \A w \in Workers : Cardinality(Sends(w)) <= 1
        /\ mpc \in {"barrier", "done"} =>
                \A w \in Workers : Cardinality(ZeroSends(w)) = 1
        /\ AllDone \/ ENABLED Next

C6_Witness ==
    /\ nums_wanted = 0
    /\ size = 4
    /\ AllDone

\* C7: with nums_wanted = 25, batch_size = 10 and two workers the counts
\* dispatched as work are 10, 10 and 5 in this order and no others; both 10s
\* go out before anything is received, the 5 only after a result has been
\* received; when the loop is left 25 values have been delivered.
C7_ScenarioA ==
    params = ScenarioA =>
        /\ IsPrefix(WorkCounts, <<10, 10, 5>>)
        /\ \A i \in WorkIdx :
            /\ trace[i].n = 10 => \A j \in 1..(i - 1) : ~IsRecv(trace[j])
            /\ trace[i].n = 5 => \E j \in 1..(i - 1) : IsRecv(trace[j])
        /\ LoopLeft => (WorkCounts = <<10, 10, 5>> /\ ReceivedTotal = 25)

C7_Witness ==
    /\ params = ScenarioA
    /\ AllDone
    /\ WorkCounts = <<10, 10, 5>>

\* C8: with one worker sends and receives alternate strictly, each result as
\* long as the job before it; the only zero-count message is the last thing
\* sent and comes from the clean-up loop; at the end ceil(nums_wanted /
\* batch_size) jobs were dispatched and nums_wanted values delivered; for
\* nums_wanted = 7 and batch_size = 10 the history is job 7, result 7,
\* termination.
C8_SingleWorkerSequential ==
    size = 2 =>
        /\ \A i \in 1..(Len(trace) - 1) :
            /\ IsSend(trace[i]) => IsRecv(trace[i + 1])
            /\ IsRecv(trace[i]) => IsSend(trace[i + 1])
        /\ trace # <<>> => IsSend(trace[1])
        /\ \A i \in DOMAIN trace :
            /\ IsRecv(trace[i]) => trace[i].n = trace[i - 1].n
            /\ (IsSend(trace[i]) /\ trace[i].n = 0) =>
                    (i = Len(trace) /\ trace[i].op = "cleanup")
        /\ mpc \in {"barrier", "done"} =>
            /\ Cardinality(WorkIdx) = CeilDiv(nums_wanted, batch_size)
            /\ ReceivedTotal = nums_wanted
            /\ Cardinality(ZeroSends(1)) = 1
        /\ (params = ScenarioC /\ mpc \in {"barrier", "done"}) =>
            trace = << [op |-> "fill", w |-> 1, n |-> 7],
                       [op |-> "recv", w |-> 1, n |-> 7],
                       [op |-> "cleanup", w |-> 1, n |-> 0] >>

C8_Witness ==
    /\ size = 2
    /\ AllDone
    /\ nums_wanted = 3 /\ batch_size = 2
    /\ WorkCounts = <<2, 1>>

\* C9: once a worker has failed while holding a job, the run does not come
\* to a standstill with rank 0 still waiting in its receive or in the
\* barrier: whenever no rank can take a step, rank 0 has raised the failure
\* and the Abort hook has ended the other workers.
C9_WorkerFailureSurfaced ==
    ((\E w \in Workers : /\ wpc[w] = "failed"
                          /\ ZeroSends(w) = {}
                          /\ Unanswered(w) = 1
                          /\ data[w] = 0) /\ ~ENABLED Next) =>
        /\ mpc \in {"failed", "aborted"}
        /\ mpc = "aborted" => \A w \in Workers : ~Running(wpc[w])

\* C10: after a failure of rank 0 the Abort hook is due, and once it has run
\* no worker is left running and every value that had been printed to the
\* output file before the failure is in the file.
C10_DispatcherFailureAbortsAndRetains ==
    /\ mpc = "failed" => ENABLED Abort
    /\ mpc = "aborted" =>
        /\ \A w \in Workers : ~Running(wpc[w])
        /\ disk = Written(outfile)

(***************************************************************************)
(* Further readings of the state and of the history.                       *)
(***************************************************************************)

\* The batches rank 0 has received, in order, as [src, n].
RECURSIVE Batches(_)
Batches(q) ==
    IF q = <<>> THEN <<>>
    ELSE <<[src |-> q[1].w, n |-> q[1].n]>> \o Batches(Tail(q))

Received == Batches(SelectSeq(trace, IsRecv))

\* The sequence without its last element.
Front(q) == SubSeq(q, 1, Len(q) - 1)

\* Sum of the counts rank 0 has sent.
SentTotal == SumLen(SelectSeq(trace, IsSend))

SetMax(S) == CHOOSE x \in S : \A y \in S : y <= x

\* Count of the unit w was sent last, if its result has not been received.
OutstandingCount(w) ==
    IF Unanswered(w) = 1 THEN trace[SetMax(Sends(w))].n ELSE 0

RECURSIVE SumOver(_, _)
SumOver(f(_), S) ==
    IF S = {} THEN 0
    ELSE LET x == CHOOSE y \in S : TRUE IN f(x) + SumOver(f, S \ {x})

OutstandingSum == SumOver(OutstandingCount, Workers)

\* Non-zero units sent to w whose result rank 0 has not received.
Busy(w) == Cardinality(Sends(w) \ ZeroSends(w)) - Cardinality(Recvs(w))

\* The same at the moment entry i of the history was made.
BusyAt(w, i) ==
    Cardinality({j \in Sends(w) \ ZeroSends(w) : j < i})
        - Cardinality({j \in Recvs(w) : j < i})

InPool(w) == \E i \in DOMAIN workers_avail : workers_avail[i] = w

\* C11: the file is written by rank 0's save step alone, one batch per
\* received batch and in the order of receipt: outside the save step the
\* batches in the file are the batches received, inside it all but the one
\* just received; at every loop test the number of values printed is
\* nums_in, after the loop it is nums_wanted, and once the file is closed
\* all of them are in the file.
C11_SinkInReceiptOrder ==
    /\ mpc # "save" => outfile = Received
    /\ mpc = "save" => (outfile = Front(Received) /\ recv_buf = Received[Len(Received)])
    /\ mpc = "loop" => Written(outfile) = nums_in
    /\ LoopLeft => Written(outfile) = nums_wanted
    /\ mpc = "done" => disk = nums_wanted

C11_Witness ==
    /\ mpc = "done"
    /\ Len(outfile) = 3
    /\ outfile[1].src < outfile[2].src
    /\ outfile[3].src = outfile[1].src

\* C12: nums_in <= nums_out <= nums_wanted in every state; nums_out is the
\* sum of the counts sent and tallied, nums_in the sum of the lengths
\* received and tallied; nums_out - nums_in is the sum of the outstanding
\* counts except inside the two windows between a message and its tally:
\* short by the count just sent while a synchronous send has not returned,
\* over by the batch just received until nums_in is raised.
C12_Accounting ==
    /\ nums_in <= nums_out /\ nums_out <= nums_wanted
    /\ nums_out = SentTotal - (IF mpc = "fill_send" THEN pending[2] ELSE 0)
    /\ nums_in = ReceivedTotal - (IF mpc = "save" THEN recv_buf.n ELSE 0)
    /\ mpc \notin {"fill_send", "save"} => nums_out - nums_in = OutstandingSum
    /\ mpc = "fill_send" => nums_out - nums_in = OutstandingSum - pending[2]
    /\ mpc = "save" => nums_out - nums_in = OutstandingSum + recv_buf.n

C12_Witness ==
    /\ mpc = "save"
    /\ nums_in > 0
    /\ OutstandingSum > 0
    /\ nums_out - nums_in = OutstandingSum + recv_buf.n

\* C12 as stated: in every state nums_in <= nums_out <= nums_wanted and
\* nums_out - nums_in is the sum of the counts of the units outstanding.
C12_AccountingInEveryState ==
    /\ nums_in <= nums_out /\ nums_out <= nums_wanted
    /\ nums_out - nums_in = OutstandingSum

\* Worker w was sent a count of 0 from the fill loop.
FillSentinel(w) == \E i \in ZeroSends(w) : trace[i].op = "fill"

\* Sum of the counts sent before entry i of the history.
SentBefore(i) == SumLen(SelectSeq(SubSeq(trace, 1, i - 1), IsSend))

\* C13: no run sends a worker two sentinels: a worker sent a count of 0
\* from the fill loop (which happens only once nums_out has reached
\* nums_wanted) is never on workers_avail again, that message is the one
\* sentinel and the last message it is sent.
C13_NoSecondSentinel ==
    \A w \in Workers :
        FillSentinel(w) =>
            /\ ~InPool(w)
            /\ Cardinality(ZeroSends(w)) = 1
            /\ SetMax(Sends(w)) \in ZeroSends(w)
            /\ nums_out = nums_wanted

C13_Witness ==
    /\ mpc = "barrier"
    /\ \E w \in Workers : FillSentinel(w) /\ wpc[w] = "barrier"
    /\ \E i \in DOMAIN trace : trace[i].op = "cleanup"

\* C13 as stated, at the step it rests on: when the termination phase
\* starts, a worker that was sent a count of 0 from the fill loop is found
\* on workers_avail (and so is sent a second sentinel).
C13_FillSentinelWorkerInPool ==
    \A w \in Workers : (LoopLeft /\ FillSentinel(w)) => InPool(w)

\* C14: the loop is never left while a worker is busy; a sentinel of the
\* clean-up loop goes out only when no worker is busy; any sentinel goes to
\* a worker that is not busy itself; a sentinel of the fill loop goes out
\* only when nums_wanted numbers have been requested (other workers may
\* then still be busy).
C14_SentinelTiming ==
    /\ LoopLeft => \A v \in Workers : Busy(v) = 0
    /\ \A i \in DOMAIN trace :
        (IsSend(trace[i]) /\ trace[i].n = 0) =>
            /\ BusyAt(trace[i].w, i) = 0
            /\ trace[i].op = "cleanup" => \A v \in Workers : BusyAt(v, i) = 0
            /\ trace[i].op = "fill" => SentBefore(i) = nums_wanted

C14_Witness ==
    \E i \in DOMAIN trace :
        /\ trace[i].op = "fill" /\ trace[i].n = 0
        /\ \E v \in Workers : BusyAt(v, i) = 1
        /\ mpc = "done"

\* C14 as stated: whenever a zero-count message is sent no worker has an
\* unanswered non-zero unit, and the loop is never left while one has.
C14_NoSentinelWhileBusy ==
    /\ LoopLeft => \A v \in Workers : Busy(v) = 0
    /\ \A i \in DOMAIN trace :
        (IsSend(trace[i]) /\ trace[i].n = 0) => \A v \in Workers : BusyAt(v, i) = 0

\* The worker whose reply rank 0 received last.
LastReplier == Received[Len(Received)].src

\* C15: every unit sent from the fill loop has count = min(batch_size,
\* nums_wanted - numbers requested before) with 0 <= count <= batch_size,
\* and the count is 0 exactly when nothing remains to be requested; the
\* fill loop always empties workers_avail, so while rank 0 waits in its
\* receive no worker is on the list, and a worker the fill loop sent count 0
\* is never on the list again.  Once the loop is left after a reply, the
\* worker whose reply came last is the one worker the fill loop has not sent
\* count 0: it is on the list, every other worker has its zero from the fill
\* loop, and by the barrier the last replier has its zero from the clean-up
\* loop.
C15_FillCounts ==
    /\ \A i \in DOMAIN trace :
        trace[i].op = "fill" =>
            /\ trace[i].n = Min(batch_size, nums_wanted - SentBefore(i))
            /\ 0 <= trace[i].n /\ trace[i].n <= batch_size
            /\ trace[i].n = 0 <=> SentBefore(i) = nums_wanted
    /\ mpc = "recv" => workers_avail = <<>>
    /\ \A w \in Workers : FillSentinel(w) => ~InPool(w)
    /\ (LoopLeft /\ Received # <<>>) =>
        /\ InPool(LastReplier)
        /\ ~FillSentinel(LastReplier)
        /\ \A w \in Workers \ {LastReplier} : FillSentinel(w)
        /\ mpc \in {"barrier", "done"} =>
            \E i \in ZeroSends(LastReplier) : trace[i].op = "cleanup"

C15_Witness ==
    /\ mpc = "recv"
    /\ \E i, j \in DOMAIN trace :
        /\ i < j
        /\ trace[i].op = "fill" /\ trace[i].n = batch_size
        /\ trace[j].op = "fill" /\ trace[j].n = 0

\* C15 as stated: the fill loop sends a unit only while numbers remain to
\* be requested, so every unit it sends has 1 <= count <= batch_size, and a
\* worker freed when none remain stays on workers_avail until the loop is
\* left.
C15_FillNeverSendsZero ==
    /\ \A i \in DOMAIN trace :
        trace[i].op = "fill" => (1 <= trace[i].n /\ trace[i].n <= batch_size)
    /\ \A w \in Workers :
        (~LoopLeft /\ nums_out = nums_wanted /\ Recvs(w) # {} /\ Busy(w) = 0
            /\ mpc \notin {"fill", "fill_send"}) => InPool(w)

\* C16: whenever main_thread has left its dispatch loop, nums_in has reached
\* nums_wanted and no worker is busy: no non-zero unit is unanswered, none
\* is waiting in a channel or being worked on, and no result is in flight.
C16_LoopExitQuiescent ==
    LoopLeft =>
        /\ nums_in >= nums_wanted
        /\ \A w \in Workers :
            /\ Busy(w) = 0
            /\ data[w] = 0
            /\ wpc[w] # "generate"
            /\ \A k \in DOMAIN inbox[w] : inbox[w][k] = 0

C16_Witness ==
    /\ mpc = "cleanup" /\ ci = 1
    /\ nums_wanted = 3 /\ size = 4
    /\ Len(Received) = 3

NoDuplicates(l) == \A i, j \in DOMAIN l : l[i] = l[j] => i = j

\* Worker w was sent the sentinel of the clean-up loop.
CleanupSentinel(w) == \E i \in ZeroSends(w) : trace[i].op = "cleanup"

\* C17: a worker is on workers_avail once at most; a worker not on the list
\* has exactly one unit (a job or a sentinel) unanswered; a worker on the
\* list has none, until the clean-up loop sends it its sentinel and leaves
\* it on the list; and no worker on the list is ever busy with a job.
C17_PoolPartition ==
    /\ NoDuplicates(workers_avail)
    /\ \A w \in Workers :
        /\ ~InPool(w) => Unanswered(w) = 1
        /\ InPool(w) => Busy(w) = 0
        /\ (InPool(w) /\ ~CleanupSentinel(w)) => Unanswered(w) = 0
        /\ (InPool(w) /\ CleanupSentinel(w)) => Unanswered(w) = 1

C17_Witness ==
    /\ mpc = "barrier"
    /\ \E v, w \in Workers :
        /\ InPool(w) /\ Unanswered(w) = 1
        /\ ~InPool(v) /\ Unanswered(v) = 1

\* C17 as stated, with either reading of "outstanding" (any unit, or a
\* non-zero unit): no duplicates on the list, no worker on the list has a
\* unit outstanding, and every worker is on the list or has exactly one.
C17_PoolPartitionInEveryState ==
    /\ NoDuplicates(workers_avail)
    /\ \/ \A w \in Workers :
            /\ InPool(w) => Unanswered(w) = 0
            /\ InPool(w) \/ Unanswered(w) = 1
       \/ \A w \in Workers :
            /\ InPool(w) => Busy(w) = 0
            /\ InPool(w) \/ Busy(w) = 1

\* Counts of the non-zero units sent to w and lengths of the results
\* received from w, each in order.
WorkSentTo(w) == Counts(SelectSeq(trace, LAMBDA e : IsWork(e) /\ e.w = w))
ReceivedFrom(w) == Counts(SelectSeq(trace, LAMBDA e : IsRecv(e) /\ e.w = w))

\* Places where a non-zero unit of w, or its result, can be.
Holding(w) ==
    Cardinality({k \in DOMAIN inbox[w] : inbox[w][k] > 0})
        + (IF wpc[w] = "generate" THEN 1 ELSE 0)
        + (IF data[w] > 0 THEN 1 ELSE 0)

\* C18: a worker generates only for a non-zero job; a worker that has left
\* its loop holds a zero-count job, has answered every non-zero unit, has no
\* result in flight and no message waiting; the results received from a
\* worker are, in order, as long as the non-zero units it was sent, none
\* longer than batch_size; and an unanswered non-zero unit is in exactly
\* one place: waiting in the channel, being worked on, or in flight as one
\* result.
C18_WorkerProtocol ==
    \A w \in Workers :
        /\ wpc[w] = "generate" => job[w] >= 1
        /\ Terminated(w) =>
            /\ job[w] = 0
            /\ data[w] = 0
            /\ inbox[w] = <<>>
            /\ ReceivedFrom(w) = WorkSentTo(w)
        /\ data[w] > 0 => (data[w] = job[w] /\ data[w] <= batch_size)
        /\ IsPrefix(ReceivedFrom(w), WorkSentTo(w))
        /\ \A k \in DOMAIN ReceivedFrom(w) :
            1 <= ReceivedFrom(w)[k] /\ ReceivedFrom(w)[k] <= batch_size
        /\ Holding(w) = Busy(w)

C18_Witness ==
    \E w \in Workers :
        /\ wpc[w] = "done"
        /\ Len(ReceivedFrom(w)) = 2
        /\ ReceivedFrom(w)[1] # ReceivedFrom(w)[2]

\* C19: whenever rank 0 is in its receive some worker has an unanswered
\* non-zero unit, and under fair scheduling the receive is always followed by
\* the saving of a batch.
C19_RecvAlwaysSatisfied ==
    /\ [](mpc = "recv" => \E w \in Workers : Busy(w) = 1)
    /\ (mpc = "recv") ~> (mpc = "save")

C19_Witness ==
    /\ mpc = "recv"
    /\ Cardinality({w \in Workers : Busy(w) = 1}) = 1
    /\ \E w \in Workers : FillSentinel(w) /\ Terminated(w)
    /\ \E w \in Workers : Recvs(w) # {}

\* C20: once the loop is left, workers_avail holds exactly the worker whose
\* reply came last, however many batches and workers there are, or every
\* worker if no reply was ever received (which needs nums_wanted = 0); the
\* clean-up loop sends its zero-count messages to workers on that list
\* only, and when rank 0 is in the barrier each worker on the list has been
\* sent exactly one.
C20_PoolAtLoopEnd ==
    /\ LoopLeft =>
        /\ Received # <<>> => workers_avail = <<LastReplier>>
        /\ Received = <<>> => (workers_avail = Range1(size) /\ nums_wanted = 0)
    /\ \A i \in DOMAIN trace : trace[i].op = "cleanup" => InPool(trace[i].w)
    /\ mpc \in {"barrier", "done"} =>
        \A w \in Workers :
            InPool(w) => Cardinality({i \in Sends(w) : trace[i].op = "cleanup"}) = 1

\* Fewer batches than workers, one reply received, and at the barrier the
\* list holds the last replier alone, the other workers having their zero
\* from the fill loop.
C20_Witness ==
    /\ mpc = "barrier"
    /\ size = 4
    /\ CeilDiv(nums_wanted, batch_size) = 1
    /\ Len(Received) = 1
    /\ workers_avail = <<LastReplier>>
    /\ CleanupSentinel(LastReplier)
    /\ \A w \in Workers \ {LastReplier} : FillSentinel(w) /\ ~InPool(w)

\* C20 as stated: when the loop ends after a reply and there are fewer
\* batches than workers, the last replier is on workers_avail and it is not
\* alone there: the workers left without a batch wait on the list as well.
C20_SurplusWorkersWaitInPool ==
    (LoopLeft /\ Received # <<>> /\ CeilDiv(nums_wanted, batch_size) < size - 1) =>
        /\ InPool(LastReplier)
        /\ Len(workers_avail) > 1

====
